---- MODULE Spec2Model ----
(***************************************************************************)
(* A model of qp_shotgun/qc_filter/qc_filter.py: the read-pair matcher     *)
(* (make_read_pairs_per_sample), the parameter formatter, the command      *)
(* generator, the sequential executor (_run_commands), the artifact        *)
(* collector (_per_sample_ainfo) and the qc_filter job that chains them.   *)
(*                                                                         *)
(* A file path or a run prefix is a sequence of one-character strings, so  *)
(* that startswith, basename and the lexicographic order of list.sort()    *)
(* are computed character by character.  A command line or a message is a  *)
(* sequence of string tokens; "" is the empty sequence.  An optional value *)
(* (Python None or a value) is a sequence of length 0 or 1.                *)
(***************************************************************************)
EXTENDS Integers, Sequences, FiniteSets, TLC

VARIABLES
    pc,             \* position of the job in qc_filter
    fwd_in,         \* fps['raw_forward_seqs'] as received (before the sort)
    rev_in,         \* fps['raw_reverse_seqs'] as received, <<>> when absent
    forward_seqs,   \* the forward list object, sorted in place
    reverse_seqs,   \* the reverse list object, sorted in place
    sn_by_rp,       \* the run prefix index, in dict iteration order
    parameters,     \* the job parameters the generator reads ('input' removed);
                    \* <<>> as long as nothing has read them
    environ,        \* os.environ restricted to QC_FILTER_DB_DP (0 or 1 value),
                    \* as the formatter finds it; <<>> before
    i,              \* loop counter of the loop that is running
    samples,        \* 4-tuples built by make_read_pairs_per_sample
    used_prefixes,  \* run prefixes consumed so far
    nprobes,        \* number of forward files the pairing loop has taken up
    commands,       \* the optional list of commands (<<>> until generated)
    temp_dir,       \* "none", "exists" or "removed"
    pass,           \* which call of _run_commands is running (3 or 4), 0 if none
    calls,          \* every system_call made: [pass, idx, out], idx from 0
    steps,          \* every message given to qclient.update_job_step
    run_ret,        \* return values of the _run_commands calls, in call order
    exists,         \* the expected output files found on disk by the collector
    ainfo,          \* the optional return value of _per_sample_ainfo
    result          \* what qc_filter gave its caller

vars == <<pc, fwd_in, rev_in, forward_seqs, reverse_seqs, sn_by_rp, parameters,
          environ, i, samples, used_prefixes, nprobes, commands, temp_dir,
          pass, calls, steps, run_ret, exists, ainfo, result>>

----------------------------------------------------------------------------
(* Bounds and input pools *)

MaxFiles == 2

\* characters in code point order
Alphabet == <<"/", "1", "2", "3", "a", "b", "p", "s", "x">>

FilePool ==
    { <<"a", "/", "s", "2">>, <<"a", "/", "s", "3">>,
      <<"b", "/", "s", "1">>, <<"s", "2", "1">> }

\* metadata tables, as the dict get_sample_names_by_run_prefix returns, each in
\* one of its iteration orders
IndexPool ==
    { <<>>,
      << [rp |-> <<"s", "1">>, sn |-> "SKB8.640193"] >>,
      << [rp |-> <<"s", "1">>, sn |-> "SKB8.640193"],
         [rp |-> <<"s", "2">>, sn |-> "SKD8.640184"] >>,
      << [rp |-> <<"s", "2">>, sn |-> "SKD8.640184"],
         [rp |-> <<"s", "1">>, sn |-> "SKB8.640193"] >>,
      << [rp |-> <<"s", "2">>, sn |-> "SKD8.640184"],
         [rp |-> <<"s", "2", "1">>, sn |-> "SKB7.640196"] >>,
      << [rp |-> <<"s", "2", "1">>, sn |-> "SKB7.640196"],
         [rp |-> <<"s", "2">>, sn |-> "SKD8.640184"] >>,
      << [rp |-> <<"s", "1">>, sn |-> "SKB8.640193"],
         [rp |-> <<"s", "2", "1", "2">>, sn |-> "SKB7.640196"] >>,
      << [rp |-> <<"s", "3">>, sn |-> "SKB7.640196"],
         [rp |-> <<"s", "1">>, sn |-> "SKB8.640193"],
         [rp |-> <<"s", "2", "1">>, sn |-> "SKD8.640184"] >> }

SeqsUpTo(S, n) == UNION { [1..k -> S] : k \in 0..n }

FileLists == SeqsUpTo(FilePool, MaxFiles)

\* the job's parameters (after `del parameters['input']`) with the process
\* environment they are formatted in: QC_FILTER_DB_DP set (<<path>>) or not
ConfigPool ==
    { [parameters |-> ("Bowtie2 database to filter" :> "Human")
                      @@ ("Number of threads to be used" :> "4"),
       environ |-> <<"/db">>],
      [parameters |-> ("Bowtie2 database to filter" :> "Human")
                      @@ ("Number of threads to be used" :> "4"),
       environ |-> <<>>],
      [parameters |-> ("Bowtie2 database to filter" :> "Mouse")
                      @@ ("Number of threads to be used" :> "4"),
       environ |-> <<"/db">>],
      [parameters |-> ("Bowtie2 database to filter" :> "default")
                      @@ ("Number of threads to be used" :> "True"),
       environ |-> <<"/db">>],
      [parameters |-> ("Bowtie2 database to filter" :> "Human")
                      @@ ("Number of threads to be used" :> "False"),
       environ |-> <<"/db">>],
      [parameters |-> ("Bowtie2 database to filter" :> "Human"),
       environ |-> <<"/db">>] }

\* what system_call can give back for one command
SysOutcomes ==
    { [std_out |-> "reads processed", std_err |-> "", return_value |-> 0],
      [std_out |-> "0 reads", std_err |-> "Could not open index file",
       return_value |-> 1] }

\* the job's output directory, and the directory mkdtemp() makes
OutDir == "/out"
TempDirPath == "/tmp/tmpq1"

----------------------------------------------------------------------------
(* Strings *)

Ord(c) == CHOOSE k \in 1..Len(Alphabet) : Alphabet[k] = c

\* str.__lt__: the first differing character decides, a proper prefix is less
RECURSIVE StrLess(_, _)
StrLess(s, t) ==
    IF t = <<>> THEN FALSE
    ELSE IF s = <<>> THEN TRUE
    ELSE IF Head(s) # Head(t) THEN Ord(Head(s)) < Ord(Head(t))
    ELSE StrLess(Tail(s), Tail(t))

\* str.startswith
StartsWith(s, p) == Len(p) <= Len(s) /\ SubSeq(s, 1, Len(p)) = p

\* os.path.basename: what follows the last "/" (p[p.rfind('/') + 1:])
Basename(p) ==
    LET seps == { k \in 1..Len(p) : p[k] = "/" }
    IN  IF seps = {} THEN p
        ELSE SubSeq(p, (CHOOSE k \in seps : \A j \in seps : j <= k) + 1, Len(p))

\* the text of a path, as '%s' % path writes it
RECURSIVE Str(_)
Str(p) == IF p = <<>> THEN "" ELSE Head(p) \o Str(Tail(p))

\* the texts of a list of paths
StrAll(l) == [k \in 1..Len(l) |-> Str(l[k])]

\* '%s' % x for an optional path: None is written "None"
PyStr(opt) == IF opt = <<>> THEN "None" ELSE Str(opt[1])

\* list.sort() on a list of str: stable, ascending
RECURSIVE Insert(_, _)
Insert(sorted, x) ==
    IF sorted = <<>> THEN <<x>>
    ELSE IF StrLess(x, Head(sorted)) THEN <<x>> \o sorted
    ELSE <<Head(sorted)>> \o Insert(Tail(sorted), x)

\* a matcher that leaves the list in the order it came in
Sort_NotSorted(l) == l

RECURSIVE Sort(_)
Sort(l) == IF l = <<>> THEN <<>> ELSE Insert(Sort(SubSeq(l, 1, Len(l) - 1)), l[Len(l)])

\* itertools.zip_longest(a, b): pairs of optional values, None-filled
Opt(l, k) == IF k <= Len(l) THEN <<l[k]>> ELSE <<>>
ZipLongest(a, b) ==
    [k \in 1..(IF Len(a) >= Len(b) THEN Len(a) ELSE Len(b)) |-> <<Opt(a, k), Opt(b, k)>>]

----------------------------------------------------------------------------
(* Results of the job *)

NoResult == [kind |-> "none", success |-> FALSE, ainfo |-> <<>>, msg |-> <<>>,
             exc |-> "", tb |-> ""]

\* `return success, ainfo, msg`; ainfo is optional (None is <<>>)
Returned(success, artifacts, msg) ==
    [kind |-> "return", success |-> success, ainfo |-> artifacts, msg |-> msg,
     exc |-> "", tb |-> ""]

\* an exception leaving qc_filter: nothing in qc_filter catches any
Raised(exc, msg, tb) ==
    [kind |-> "raise", success |-> FALSE, ainfo |-> <<>>, msg |-> msg,
     exc |-> exc, tb |-> tb]

----------------------------------------------------------------------------
(* make_read_pairs_per_sample *)

\* a scan that keeps the first run prefix that matches and tests no other
ScanPrefixes_FirstWins(fwd_fn, index, k, run_prefix) ==
    IF \E j \in k..Len(index) : StartsWith(fwd_fn, index[j].rp)
    THEN [multiple |-> FALSE,
          run_prefix |-> <<index[CHOOSE j \in k..Len(index) :
                                  /\ StartsWith(fwd_fn, index[j].rp)
                                  /\ \A h \in k..(j - 1) : ~StartsWith(fwd_fn, index[h].rp)].rp>>]
    ELSE [multiple |-> FALSE, run_prefix |-> run_prefix]

\* the loop `for rp in sn_by_rp` on one forward basename, from entry k on,
\* run_prefix being the optional prefix found so far
RECURSIVE ScanPrefixes(_, _, _, _)
ScanPrefixes(fwd_fn, index, k, run_prefix) ==
    IF k > Len(index) THEN [multiple |-> FALSE, run_prefix |-> run_prefix]
    ELSE IF StartsWith(fwd_fn, index[k].rp) /\ run_prefix = <<>>
         THEN ScanPrefixes(fwd_fn, index, k + 1, <<index[k].rp>>)
    ELSE IF StartsWith(fwd_fn, index[k].rp) /\ run_prefix # <<>>
         THEN [multiple |-> TRUE, run_prefix |-> run_prefix]
    ELSE ScanPrefixes(fwd_fn, index, k + 1, run_prefix)

\* sn_by_rp[run_prefix]
Lookup(index, rp) == index[CHOOSE k \in 1..Len(index) : index[k].rp = rp].sn

\* an iteration that does not look at the run prefixes already used
PairOne_NoUsedCheck(fwd_fp, rev_fp, index, used) ==
    LET fwd_fn == Basename(fwd_fp)
        scan   == ScanPrefixes(fwd_fn, index, 1, <<>>)
        rp     == scan.run_prefix[1]
    IN  IF scan.multiple
        THEN [err |-> <<"Multiple run prefixes match this fwd read:", Str(fwd_fn)>>]
        ELSE IF scan.run_prefix = <<>>
        THEN [err |-> <<"No run prefix matching this fwd read:", Str(fwd_fn)>>]
        ELSE IF rev_fp # <<>> /\ ~StartsWith(Basename(rev_fp[1]), rp)
        THEN [err |-> <<"Reverse read does not match this run prefix.",
                        Str(rp), Str(fwd_fn), Str(Basename(rev_fp[1]))>>]
        ELSE [err |-> <<>>,
              sample |-> [run_prefix |-> rp, sample |-> Lookup(index, rp),
                          f_fp |-> fwd_fp, r_fp |-> rev_fp]]

\* an iteration that does not test the reverse basename against the run prefix
PairOne_NoReverseCheck(fwd_fp, rev_fp, index, used) ==
    LET fwd_fn == Basename(fwd_fp)
        scan   == ScanPrefixes(fwd_fn, index, 1, <<>>)
        rp     == scan.run_prefix[1]
    IN  IF scan.multiple
        THEN [err |-> <<"Multiple run prefixes match this fwd read:", Str(fwd_fn)>>]
        ELSE IF scan.run_prefix = <<>>
        THEN [err |-> <<"No run prefix matching this fwd read:", Str(fwd_fn)>>]
        ELSE IF rp \in used
        THEN [err |-> <<"This run prefix matches multiple fwd reads:", Str(rp)>>]
        ELSE [err |-> <<>>,
              sample |-> [run_prefix |-> rp, sample |-> Lookup(index, rp),
                          f_fp |-> fwd_fp, r_fp |-> rev_fp]]

\* one iteration of the pairing loop on the pair (fwd_fp, rev_fp), rev_fp
\* optional: the error raised, or the tuple appended
PairOne(fwd_fp, rev_fp, index, used) ==
    LET fwd_fn == Basename(fwd_fp)
        scan   == ScanPrefixes(fwd_fn, index, 1, <<>>)
        rp     == scan.run_prefix[1]
    IN  IF scan.multiple
        THEN [err |-> <<"Multiple run prefixes match this fwd read:", Str(fwd_fn)>>]
        ELSE IF scan.run_prefix = <<>>
        THEN [err |-> <<"No run prefix matching this fwd read:", Str(fwd_fn)>>]
        ELSE IF rp \in used
        THEN [err |-> <<"This run prefix matches multiple fwd reads:", Str(rp)>>]
        ELSE IF rev_fp = <<>>
        THEN [err |-> <<>>,
              sample |-> [run_prefix |-> rp, sample |-> Lookup(index, rp),
                          f_fp |-> fwd_fp, r_fp |-> <<>>]]
        ELSE IF ~StartsWith(Basename(rev_fp[1]), rp)
        THEN [err |-> <<"Reverse read does not match this run prefix.",
                        Str(rp), Str(fwd_fn), Str(Basename(rev_fp[1]))>>]
        ELSE [err |-> <<>>,
              sample |-> [run_prefix |-> rp, sample |-> Lookup(index, rp),
                          f_fp |-> fwd_fp, r_fp |-> rev_fp]]

\* the pairs the loop walks, read off the two (sorted) lists
Pairs == ZipLongest(forward_seqs, reverse_seqs)

----------------------------------------------------------------------------
(* qc_filter, step by step *)

Init ==
    /\ pc = "start"
    /\ fwd_in \in FileLists
    /\ rev_in \in FileLists
    /\ sn_by_rp \in IndexPool
    /\ forward_seqs = fwd_in
    /\ reverse_seqs = rev_in
    /\ parameters = <<>>
    /\ environ = <<>>
    /\ i = 0
    /\ samples = <<>>
    /\ used_prefixes = {}
    /\ nprobes = 0
    /\ commands = <<>>
    /\ temp_dir = "none"
    /\ pass = 0
    /\ calls = <<>>
    /\ steps = <<>>
    /\ run_ret = <<>>
    /\ exists = {}
    /\ ainfo = <<>>
    /\ result = NoResult

\* lines 276-287: the first progress message, the artifact and its metadata
CollectInformation ==
    /\ pc = "start"
    /\ pc' = "mkdtemp"
    /\ steps' = Append(steps, "Step 1 of 4: Collecting information")
    /\ UNCHANGED <<fwd_in, rev_in, forward_seqs, reverse_seqs, sn_by_rp, parameters,
                   environ, i, samples, used_prefixes, nprobes, commands, temp_dir,
                   pass, calls, run_ret, exists, ainfo, result>>

\* lines 290-295: the second progress message, then mkdtemp()
MakeTempDir ==
    /\ pc = "mkdtemp"
    /\ pc' = "sort"
    /\ steps' = Append(steps, "Step 2 of 4: Generating QC_Filter commands")
    /\ temp_dir' = "exists"
    /\ UNCHANGED <<fwd_in, rev_in, forward_seqs, reverse_seqs, sn_by_rp, parameters,
                   environ, i, samples, used_prefixes, nprobes, commands,
                   pass, calls, run_ret, exists, ainfo, result>>

\* a length test that does not let the empty reverse list through
LengthsDiffer_NoEmptyGuard(fwd, rev) == Len(fwd) # Len(rev)

\* lines 61-62: the reverse list is given and is not as long as the forward list
LengthsDiffer(fwd, rev) == rev # <<>> /\ Len(fwd) # Len(rev)

\* lines 58-67: sort the forward list, check the lengths, sort the reverse list
SortInputs ==
    /\ pc = "sort"
    /\ forward_seqs' = Sort(forward_seqs)
    /\ IF LengthsDiffer(forward_seqs', reverse_seqs)
       THEN /\ pc' = "done"
            /\ result' = Raised("ValueError",
                   <<"Your reverse and forward files are of different length.",
                     "Forward:">> \o StrAll(forward_seqs')
                   \o <<"Reverse:">> \o StrAll(reverse_seqs),
                   "make_read_pairs_per_sample")
            /\ UNCHANGED reverse_seqs
       ELSE /\ pc' = "match"
            /\ reverse_seqs' = Sort(reverse_seqs)
            /\ UNCHANGED result
    /\ UNCHANGED <<fwd_in, rev_in, sn_by_rp, parameters, environ, i, samples,
                   used_prefixes, nprobes, commands, temp_dir, pass, calls, steps,
                   run_ret, exists, ainfo>>

\* lines 77-115: one iteration of the pairing loop
MatchOne ==
    /\ pc = "match"
    /\ i < Len(Pairs)
    /\ LET pair == Pairs[i + 1]
           one  == PairOne(pair[1][1], pair[2], sn_by_rp, used_prefixes)
       IN  /\ nprobes' = nprobes + 1
           /\ IF one.err # <<>>
              THEN /\ pc' = "done"
                   /\ result' = Raised("ValueError", one.err,
                                       "make_read_pairs_per_sample")
                   /\ UNCHANGED <<i, samples, used_prefixes>>
              ELSE /\ samples' = Append(samples, one.sample)
                   /\ used_prefixes' = used_prefixes \cup {one.sample.run_prefix}
                   /\ i' = i + 1
                   /\ UNCHANGED <<pc, result>>
    /\ UNCHANGED <<fwd_in, rev_in, forward_seqs, reverse_seqs, sn_by_rp, parameters,
                   environ, commands, temp_dir, pass, calls, steps, run_ret, exists, ainfo>>

\* line 117: the loop is over, the samples are returned
MatchReturn ==
    /\ pc = "match"
    /\ i = Len(Pairs)
    /\ pc' = "generate"
    /\ UNCHANGED <<fwd_in, rev_in, forward_seqs, reverse_seqs, sn_by_rp, parameters,
                   environ, i, samples, used_prefixes, nprobes, commands, temp_dir,
                   pass, calls, steps, run_ret, exists, ainfo, result>>

----------------------------------------------------------------------------
(* _format_qc_filter_params *)

\* BOWTIE2_PARAMS, in the order it is written: flag, parameter name
BOWTIE2_PARAMS ==
    << [param |-> <<"x">>, parameter |-> "Bowtie2 database to filter"],
       [param |-> <<"p">>, parameter |-> "Number of threads to be used"] >>

\* DATABASE_PREFIX
DATABASE_PREFIX == ("Human" :> "Human/phix")

\* os.path.join(a, b) for a directory a without trailing separator and a
\* relative b, the only operands it gets here
Join(a, b) == a \o "/" \o b

\* sorted(BOWTIE2_PARAMS): the flags in ascending order
SortedParams == Sort([k \in 1..Len(BOWTIE2_PARAMS) |-> BOWTIE2_PARAMS[k].param])

\* BOWTIE2_PARAMS[param]
ParameterOf(param) ==
    BOWTIE2_PARAMS[CHOOSE k \in 1..Len(BOWTIE2_PARAMS) : BOWTIE2_PARAMS[k].param = param].parameter

\* `value is 'True'`: an identity test between two str objects.  Equal text is
\* necessary; whether equal text is one object depends on the interpreter and
\* on where the value was built, which `interned` stands for.
Is(value, literal, interned) == value = literal /\ interned

\* the body of the loop for one flag: a KeyError (err), or the words the flag
\* adds to the parameter string
FormatOne(param, params, env, interned) ==
    LET parameter == ParameterOf(param)
        value     == params[parameter]
        dash      == IF Len(param) = 1 THEN "-" ELSE "--"
    IN  IF parameter \notin DOMAIN params
        THEN [err |-> <<"KeyError", parameter>>, out |-> <<>>]
        ELSE IF Is(value, "True", interned)
        THEN [err |-> <<>>, out |-> <<dash \o Str(param)>>]
        ELSE IF Is(value, "False", interned)
        THEN [err |-> <<>>, out |-> <<>>]
        ELSE IF value # "" /\ value # "default"
        THEN IF param = <<"x">>
             THEN IF env = <<>>
                  THEN [err |-> <<"KeyError", "QC_FILTER_DB_DP">>, out |-> <<>>]
                  ELSE IF value \notin DOMAIN DATABASE_PREFIX
                  THEN [err |-> <<"KeyError", value>>, out |-> <<>>]
                  ELSE [err |-> <<>>,
                        out |-> <<dash \o Str(param), Join(env[1], DATABASE_PREFIX[value])>>]
             ELSE [err |-> <<>>, out |-> <<dash \o Str(param), value>>]
        ELSE [err |-> <<>>, out |-> <<>>]

\* the loop over the sorted flags from flag k on, then ' '.join(params)
RECURSIVE FormatFrom(_, _, _, _, _)
FormatFrom(k, acc, params, env, interned) ==
    IF k > Len(SortedParams) THEN [err |-> <<>>, out |-> acc]
    ELSE LET one == FormatOne(SortedParams[k], params, env, interned)
         IN  IF one.err # <<>> THEN one
             ELSE FormatFrom(k + 1, acc \o one.out, params, env, interned)

_format_qc_filter_params(params, env, interned) == FormatFrom(1, <<>>, params, env, interned)

----------------------------------------------------------------------------
(* generate_qc_filter_commands *)

\* the command of one sample, word by word (lines 187-214)
CommandOf(param_string, s, threads) ==
    <<"bowtie2">> \o param_string \o
    <<"--very-sensitive", "-1", Str(s.f_fp), "-2", PyStr(s.r_fp), "|",
      "samtools", "view", "-f", "12", "-F", "256", "-b", "-o",
      Join(TempDirPath, s.sample \o ".unsorted.bam"), ";",
      "samtools", "sort", "-T", Join(TempDirPath, s.sample), "-@", threads, "-n", "-o",
      Join(TempDirPath, s.sample \o ".bam"),
      Join(TempDirPath, s.sample \o ".unsorted.bam"), ";",
      "bedtools", "bamtofastq", "-i", Join(TempDirPath, s.sample \o ".bam"),
      "-fq", Join(TempDirPath, s.sample \o ".R1.trimmed.filtered.fastq"),
      "-fq2", Join(TempDirPath, s.sample \o ".R2.trimmed.filtered.fastq"), ";",
      "pigz", "-p", threads, "-c",
      Join(TempDirPath, s.sample \o ".R1.trimmed.filtered.fastq"), ">",
      Join(OutDir, s.sample \o ".R1.trimmed.filtered.fastq.gz"), ";",
      "pigz", "-p", threads, "-c",
      Join(TempDirPath, s.sample \o ".R2.trimmed.filtered.fastq"), ">",
      Join(OutDir, s.sample \o ".R2.trimmed.filtered.fastq.gz")>>

\* a generator that walks the samples from the last to the first
GenerateFrom_Reversed(matched, params, env, interned) ==
    LET fmt == _format_qc_filter_params(params, env, interned)
    IN  IF fmt.err # <<>> THEN [err |-> fmt.err, cmds |-> <<>>]
        ELSE [err |-> <<>>,
              cmds |-> [k \in 1..Len(matched) |->
                          CommandOf(fmt.out, matched[Len(matched) + 1 - k],
                                    params["Number of threads to be used"])]]

\* lines 181-216, once the matcher has returned `matched`: a KeyError of the
\* formatter, or one command per sample
GenerateFrom(matched, params, env, interned) ==
    LET fmt == _format_qc_filter_params(params, env, interned)
    IN  IF fmt.err # <<>> THEN [err |-> fmt.err, cmds |-> <<>>]
        ELSE [err |-> <<>>,
              cmds |-> [k \in 1..Len(matched) |->
                          CommandOf(fmt.out, matched[k],
                                    params["Number of threads to be used"])]]

\* lines 181-216 and 301-302: the parameters and the environment are read,
\* the commands are generated and the first call of _run_commands begins
GenerateCommands ==
    /\ pc = "generate"
    /\ \E c \in ConfigPool, interned \in BOOLEAN :
         LET gen == GenerateFrom(samples, c.parameters, c.environ, interned)
         IN  /\ parameters' = c.parameters
             /\ environ' = c.environ
             /\ IF gen.err # <<>>
                THEN /\ pc' = "done"
                     /\ result' = Raised("KeyError", gen.err, "_format_qc_filter_params")
                     /\ UNCHANGED <<commands, pass, i>>
                ELSE /\ pc' = "run"
                     /\ commands' = <<gen.cmds>>
                     /\ pass' = 3
                     /\ i' = 0
                     /\ UNCHANGED result
    /\ UNCHANGED <<fwd_in, rev_in, forward_seqs, reverse_seqs, sn_by_rp, samples,
                   used_prefixes, nprobes, temp_dir, calls, steps, run_ret, exists,
                   ainfo>>

----------------------------------------------------------------------------
(* _run_commands *)

\* the two message templates of qc_filter (lines 302 and 308), filled by
\* .format(len_cmd) and then by `msg % i`
StepMsg(call, idx, len_cmd) ==
    (IF call = 3 THEN "Step 3 of 4: Executing QC_Trim job ("
                 ELSE "Step 4 of 4: Generating new artifacts (")
    \o ToString(idx) \o "/" \o ToString(len_cmd) \o ")"

\* lines 224-226: the message returned for a failed command
ErrorMsg(cmd, out) ==
    <<"Error running QC_Filter:", "Std out:", out.std_out, "Std err:", out.std_err,
      "Command run was:">> \o cmd

\* a loop that goes on to the next command whatever the exit status
AfterCall_NeverStops(cmd, out) ==
    [returns |-> FALSE, ret |-> [success |-> TRUE, msg |-> <<>>]]

\* lines 222-227: what the loop does with the outcome of one command: return
\* (False, error_msg), or go on to the next command
AfterCall(cmd, out) ==
    IF out.return_value # 0
    THEN [returns |-> TRUE, ret |-> [success |-> FALSE, msg |-> ErrorMsg(cmd, out)]]
    ELSE [returns |-> FALSE, ret |-> [success |-> TRUE, msg |-> <<>>]]

\* the statements of qc_filter that follow a call of _run_commands which
\* returned ret: line 304-308 after the first call, line 310 after the second,
\* whose return value is not looked at
AfterRun(call, ret) ==
    IF call = 3
    THEN IF ~ret.success
         THEN [pc |-> "done", pass |-> 0, result |-> <<Returned(FALSE, <<>>, ret.msg)>>]
         ELSE [pc |-> "run", pass |-> 4, result |-> <<>>]
    ELSE [pc |-> "collect", pass |-> 0, result |-> <<>>]

\* lines 220-227: one iteration of the loop of _run_commands
RunCommand ==
    /\ pc = "run"
    /\ i < Len(commands[1])
    /\ \E out \in SysOutcomes :
         LET cmd   == commands[1][i + 1]
             after == AfterCall(cmd, out)
             then  == AfterRun(pass, after.ret)
         IN  /\ steps' = Append(steps, StepMsg(pass, i, Len(commands[1])))
             /\ calls' = Append(calls, [pass |-> pass, idx |-> i, out |-> out])
             /\ IF after.returns
                THEN /\ run_ret' = Append(run_ret, after.ret)
                     /\ pc' = then.pc
                     /\ pass' = then.pass
                     /\ i' = 0
                     /\ result' = IF then.result = <<>> THEN result ELSE then.result[1]
                ELSE /\ i' = i + 1
                     /\ UNCHANGED <<run_ret, pc, pass, result>>
    /\ UNCHANGED <<fwd_in, rev_in, forward_seqs, reverse_seqs, sn_by_rp, parameters,
                   environ, samples, used_prefixes, nprobes, commands, temp_dir,
                   exists, ainfo>>

\* line 229: the loop is over, _run_commands returns (True, "")
RunReturn ==
    /\ pc = "run"
    /\ i = Len(commands[1])
    /\ LET ret  == [success |-> TRUE, msg |-> <<>>]
           then == AfterRun(pass, ret)
       IN  /\ run_ret' = Append(run_ret, ret)
           /\ pc' = then.pc
           /\ pass' = then.pass
           /\ i' = 0
           /\ result' = IF then.result = <<>> THEN result ELSE then.result[1]
    /\ UNCHANGED <<fwd_in, rev_in, forward_seqs, reverse_seqs, sn_by_rp, parameters,
                   environ, samples, used_prefixes, nprobes, commands, temp_dir,
                   calls, steps, exists, ainfo>>

----------------------------------------------------------------------------
(* _per_sample_ainfo *)

\* lines 236-237
Suffixes == <<".R1.trimmed.filtered.fastq.gz", ".R2.trimmed.filtered.fastq.gz">>

\* lines 239-242: the file names looked for, in the order of the two loops.
\* The loop names the second element of each tuple: the sample name.
RECURSIVE ExpectedFiles(_)
ExpectedFiles(matched) ==
    IF matched = <<>> THEN <<>>
    ELSE <<Join(OutDir, Head(matched).sample \o Suffixes[1]),
           Join(OutDir, Head(matched).sample \o Suffixes[2])>>
         \o ExpectedFiles(Tail(matched))

\* a collector that lists every expected name, on disk or not
Existing_NoSkip(names, on_disk) == names

\* lines 243-246: the names that exist, in order
RECURSIVE Existing(_, _)
Existing(names, on_disk) ==
    IF names = <<>> THEN <<>>
    ELSE (IF Head(names) \in on_disk THEN <<Head(names)>> ELSE <<>>)
         \o Existing(Tail(names), on_disk)

\* lines 233-253: a ValueError, or the list of one ArtifactInfo
PerSampleAinfo(matched, on_disk) ==
    LET files == Existing(ExpectedFiles(matched), on_disk)
    IN  IF files = <<>>
        THEN [err |-> <<"No sequences left after filtering">>, ret |-> <<>>]
        ELSE [err |-> <<>>,
              ret |-> << [output_name |-> "QC_Trim files",
                          artifact_type |-> "per_sample_FASTQ",
                          files |-> files] >>]

\* line 310: the collector looks at the output directory
Collect ==
    /\ pc = "collect"
    /\ \E on_disk \in SUBSET { ExpectedFiles(samples)[k] : k \in 1..Len(ExpectedFiles(samples)) } :
         LET got == PerSampleAinfo(samples, on_disk)
         IN  /\ exists' = on_disk
             /\ IF got.err # <<>>
                THEN /\ pc' = "done"
                     /\ result' = Raised("ValueError", got.err, "_per_sample_ainfo")
                     /\ UNCHANGED ainfo
                ELSE /\ pc' = "rmtree"
                     /\ ainfo' = <<got.ret>>
                     /\ UNCHANGED result
    /\ UNCHANGED <<fwd_in, rev_in, forward_seqs, reverse_seqs, sn_by_rp, parameters,
                   environ, i, samples, used_prefixes, nprobes, commands, temp_dir,
                   pass, calls, steps, run_ret>>

\* lines 312-314: the temporary directory is removed and the job returns
RemoveTempAndReturn ==
    /\ pc = "rmtree"
    /\ temp_dir' = "removed"
    /\ pc' = "done"
    /\ result' = Returned(TRUE, ainfo, <<>>)
    /\ UNCHANGED <<fwd_in, rev_in, forward_seqs, reverse_seqs, sn_by_rp, parameters,
                   environ, i, samples, used_prefixes, nprobes, commands,
                   pass, calls, steps, run_ret, exists, ainfo>>

Next ==
    \/ CollectInformation
    \/ MakeTempDir
    \/ SortInputs
    \/ MatchOne
    \/ MatchReturn
    \/ GenerateCommands
    \/ RunCommand
    \/ RunReturn
    \/ Collect
    \/ RemoveTempAndReturn

Spec == Init /\ [][Next]_vars

----------------------------------------------------------------------------
(* What the claims speak of *)

\* make_read_pairs_per_sample has just returned: `samples` is its return
\* value.  Every job that goes past the matcher goes through this position.
MatcherReturned == pc = "generate"

\* generate_qc_filter_commands has just returned (commands, samples): no
\* command has been started yet.  The commands never change afterwards.
GeneratorReturned == commands # <<>> /\ calls = <<>>

\* make_read_pairs_per_sample has raised its ValueError
PairingError ==
    /\ pc = "done"
    /\ result.kind = "raise"
    /\ result.exc = "ValueError"
    /\ result.tb = "make_read_pairs_per_sample"

\* the run prefixes of the index that the basename of path starts with
MatchesOf(path) ==
    { sn_by_rp[k].rp : k \in { j \in 1..Len(sn_by_rp) :
                                StartsWith(Basename(path), sn_by_rp[j].rp) } }

\* the sample name the index gives a run prefix
NameOf(rp) == (CHOOSE e \in { sn_by_rp[k] : k \in 1..Len(sn_by_rp) } : e.rp = rp).sn

\* l without its first element equal to x
RECURSIVE Without(_, _)
Without(l, x) ==
    IF l = <<>> THEN <<>>
    ELSE IF Head(l) = x THEN Tail(l)
    ELSE <<Head(l)>> \o Without(Tail(l), x)

\* l in ascending lexicographic order: a least element first, then the rest
\* in ascending order
RECURSIVE Ascending(_)
Ascending(l) ==
    IF l = <<>> THEN <<>>
    ELSE LET least == CHOOSE x \in { l[k] : k \in 1..Len(l) } :
                          \A y \in { l[k] : k \in 1..Len(l) } : ~StrLess(y, x)
         IN  <<least>> \o Ascending(Without(l, least))

\* every forward basename starts with exactly one run prefix
EachOnePrefix == \A k \in 1..Len(fwd_in) : Cardinality(MatchesOf(fwd_in[k])) = 1

\* some run prefix is matched by two forward files
PrefixShared ==
    \E j, k \in 1..Len(fwd_in) :
        j # k /\ MatchesOf(fwd_in[j]) \cap MatchesOf(fwd_in[k]) # {}

\* the reverse list is as long as the forward list and, both sorted, each
\* reverse basename starts with the run prefix of the forward file at its place
ReverseConsistent ==
    /\ Len(rev_in) = Len(fwd_in)
    /\ LET fwd == Ascending(fwd_in)
           rev == Ascending(rev_in)
       IN  \A k \in 1..Len(fwd) :
              \A rp \in MatchesOf(fwd[k]) : StartsWith(Basename(rev[k]), rp)

WellFormed == EachOnePrefix /\ ~PrefixShared /\ (rev_in = <<>> \/ ReverseConsistent)

\* the tuples a well-formed input is to give
ExpectedSamples ==
    LET fwd == Ascending(fwd_in)
        rev == Ascending(rev_in)
    IN  [k \in 1..Len(fwd) |->
            LET rp == CHOOSE r \in MatchesOf(fwd[k]) : TRUE
            IN  [run_prefix |-> rp, sample |-> NameOf(rp), f_fp |-> fwd[k],
                 r_fp |-> IF rev_in = <<>> THEN <<>> ELSE <<rev[k]>>]]

\* C1: on well-formed input (each forward basename starts with exactly one run
\* prefix, no run prefix is shared, the reverse list is empty or consistent
\* position by position) make_read_pairs_per_sample raises nothing and returns
\* one tuple per forward file, in ascending order of the forward paths whatever
\* the order the lists came in, each with the matched run prefix, its sample
\* name, the forward path and the reverse path of the same rank (or none).
C1_WellFormedGivesSortedSamples ==
    /\ PairingError => ~WellFormed
    /\ MatcherReturned => (WellFormed => samples = ExpectedSamples)
    /\ pc = "done" => (PairingError \/ result.tb # "make_read_pairs_per_sample")

\* C1 witness: two files given in descending order, with reverse files, matched
C1_Witness ==
    /\ WellFormed
    /\ MatcherReturned
    /\ Len(samples) = 2
    /\ rev_in # <<>>
    /\ StrLess(fwd_in[2], fwd_in[1])
    /\ samples[1].f_fp = fwd_in[2]

\* some forward basename starts with no run prefix, or with more than one
BadPrefixCount == \E k \in 1..Len(fwd_in) : Cardinality(MatchesOf(fwd_in[k])) # 1

\* C2: if some forward basename starts with no run prefix of the index, or with
\* more than one, make_read_pairs_per_sample never returns a sample list and
\* ends with a ValueError, in whichever order the index is walked.
C2_BadPrefixCountRaises ==
    /\ MatcherReturned => ~BadPrefixCount
    /\ (pc = "done" /\ ~PairingError) => ~BadPrefixCount

\* C2 witness: a basename matched by two run prefixes, the longer one walked
\* first, has raised
C2_Witness ==
    /\ BadPrefixCount
    /\ PairingError
    /\ result.msg[1] = "Multiple run prefixes match this fwd read:"
    /\ Len(sn_by_rp) = 2
    /\ Len(sn_by_rp[1].rp) > Len(sn_by_rp[2].rp)

\* two different forward files match one run prefix
DistinctFilesSharePrefix ==
    \E j, k \in 1..Len(fwd_in) :
        /\ fwd_in[j] # fwd_in[k]
        /\ MatchesOf(fwd_in[j]) \cap MatchesOf(fwd_in[k]) # {}

\* C3: if two distinct forward files match the same run prefix,
\* make_read_pairs_per_sample ends with a ValueError and returns nothing; so the
\* run prefixes of a returned sample list are pairwise distinct.
C3_SharedPrefixRaises ==
    /\ MatcherReturned => ~DistinctFilesSharePrefix
    /\ (pc = "done" /\ ~PairingError) => ~DistinctFilesSharePrefix
    /\ MatcherReturned =>
          \A a, b \in 1..Len(samples) :
              a # b => samples[a].run_prefix # samples[b].run_prefix

\* C3 witness: two different files, each matching only the one shared prefix,
\* and the second was refused
C3_Witness ==
    /\ DistinctFilesSharePrefix
    /\ EachOnePrefix
    /\ PairingError
    /\ result.msg[1] = "This run prefix matches multiple fwd reads:"

\* C4: a non-empty reverse list whose length differs from the forward list's
\* makes make_read_pairs_per_sample raise its ValueError before any forward file
\* is matched against the run prefixes, and no sample is made; an empty reverse
\* list never raises the length error.
C4_LengthMismatchRaisesFirst ==
    /\ (rev_in # <<>> /\ Len(rev_in) # Len(fwd_in)) =>
          /\ nprobes = 0
          /\ samples = <<>>
          /\ ~MatcherReturned
          /\ pc \notin {"start", "mkdtemp", "sort"} =>
                /\ PairingError
                /\ result.msg[1] = "Your reverse and forward files are of different length."
    /\ rev_in = <<>> =>
          (result.msg = <<>>
           \/ result.msg[1] # "Your reverse and forward files are of different length.")

\* C4 witness: two forward files and one reverse file that would have matched
C4_Witness ==
    /\ Len(fwd_in) = 2
    /\ Len(rev_in) = 1
    /\ EachOnePrefix
    /\ ~PrefixShared
    /\ PairingError
    /\ result.msg[1] = "Your reverse and forward files are of different length."

\* at some rank both sorted lists have a file, the forward one matches one run
\* prefix and the reverse basename does not start with it
ReverseMismatch ==
    /\ rev_in # <<>>
    /\ LET fwd == Ascending(fwd_in)
           rev == Ascending(rev_in)
       IN  \E k \in 1..Len(fwd) :
              /\ k <= Len(rev)
              /\ LET m == MatchesOf(fwd[k])
                 IN  /\ Cardinality(m) = 1
                     /\ \E rp \in m : ~StartsWith(Basename(rev[k]), rp)

\* C5: with reverse files, the reverse file of rank k in sorted order goes with
\* the forward file of rank k in sorted order; if its basename does not start
\* with that forward file's run prefix, the matcher ends with a ValueError and
\* generate_qc_filter_commands gives no command at all.
C5_ReverseMismatchRaises ==
    /\ (MatcherReturned /\ rev_in # <<>>) =>
          LET fwd == Ascending(fwd_in)
              rev == Ascending(rev_in)
          IN  \A k \in 1..Len(samples) :
                 /\ samples[k].f_fp = fwd[k]
                 /\ samples[k].r_fp = <<rev[k]>>
    /\ MatcherReturned => ~ReverseMismatch
    /\ GeneratorReturned => ~ReverseMismatch
    /\ (pc = "done" /\ ~PairingError) => ~ReverseMismatch

\* C5 witness: the first pair was accepted and the second pair's reverse file
\* was refused, although both lists hold files of the same two samples
C5_Witness ==
    /\ ReverseMismatch
    /\ EachOnePrefix
    /\ ~PrefixShared
    /\ Len(fwd_in) = 2
    /\ Len(rev_in) = 2
    /\ Len(samples) = 1
    /\ PairingError
    /\ result.msg[1] = "Reverse read does not match this run prefix."

\* the calls of system_call made by the first (1) or second (2) call of
\* _run_commands, as positions in `calls`
CallsOfRun(r) == { a \in 1..Len(calls) : calls[a].pass = r + 2 }

Failed(a) == calls[a].out.return_value # 0

\* C6: _run_commands stops at the first command that exits non-zero: within one
\* call no command is started after a command that failed, the commands started
\* are the first ones of the list in order, and the call returns (False, msg)
\* where msg carries the failing command, its stdout and its stderr; a call
\* returns (True, "") only when every command ran and exited zero.  When the
\* failing call is the one of step 3, qc_filter returns (False, None, msg).
C6_StopsAtFirstFailure ==
    /\ \A a, b \in 1..Len(calls) :
          (a < b /\ calls[a].pass = calls[b].pass) =>
              (~Failed(a) /\ calls[b].idx = calls[a].idx + (b - a))
    /\ \A a \in 1..Len(calls) : Failed(a) => ~(pc = "run" /\ pass = calls[a].pass)
    /\ \A r \in 1..Len(run_ret) :
          IF \E a \in CallsOfRun(r) : Failed(a)
          THEN \A a \in CallsOfRun(r) :
                  Failed(a) =>
                     /\ ~run_ret[r].success
                     /\ run_ret[r].msg[3] = calls[a].out.std_out
                     /\ run_ret[r].msg[5] = calls[a].out.std_err
                     /\ SubSeq(run_ret[r].msg, 7, Len(run_ret[r].msg))
                          = commands[1][calls[a].idx + 1]
          ELSE /\ run_ret[r] = [success |-> TRUE, msg |-> <<>>]
               /\ Cardinality(CallsOfRun(r)) = Len(commands[1])
    /\ \A a \in 1..Len(calls) :
          (Failed(a) /\ calls[a].pass = 3) =>
              /\ pc = "done"
              /\ result = Returned(FALSE, <<>>, run_ret[1].msg)

\* C6 witness: of two commands the first exited zero and the second did not,
\* in the first call of _run_commands
C6_Witness ==
    /\ Len(calls) = 2
    /\ Len(commands[1]) = 2
    /\ ~Failed(1)
    /\ Failed(2)
    /\ calls[2].pass = 3
    /\ pc = "done"

\* the words of cmd that are a read-input flag
InputFlags(cmd) == { q \in 1..Len(cmd) : cmd[q] \in {"-1", "-2"} }

\* C7: generate_qc_filter_commands returns as many commands as the matcher
\* returned samples, and the command of rank k reads the forward path of the
\* sample of rank k after -1, its reverse path (when it has one) after -2, and
\* writes the output files named after that sample.
C7_OneCommandPerSampleInOrder ==
    GeneratorReturned =>
        /\ Len(commands[1]) = Len(samples)
        /\ \A k \in 1..Len(samples) :
              LET cmd == commands[1][k]
                  s   == samples[k]
                  fwd == Str(s.f_fp)
                  q   == CHOOSE n \in 1..Len(cmd) : cmd[n] = "-1"
              IN  /\ \E n \in 1..Len(cmd) : cmd[n] = "-1"
                  /\ q + 3 <= Len(cmd)
                  /\ cmd[q + 1] = fwd
                  /\ cmd[q + 2] = "-2"
                  /\ s.r_fp # <<>> => cmd[q + 3] = Str(s.r_fp[1])
                  /\ cmd[Len(cmd)]
                       = OutDir \o "/" \o s.sample \o ".R2.trimmed.filtered.fastq.gz"
                  /\ \E n \in 1..Len(cmd) :
                        cmd[n] = OutDir \o "/" \o s.sample \o ".R1.trimmed.filtered.fastq.gz"

\* C7 witness: two commands generated for two paired samples whose files came
\* in descending order
C7_Witness ==
    /\ GeneratorReturned
    /\ Len(commands[1]) = 2
    /\ rev_in # <<>>
    /\ StrLess(fwd_in[2], fwd_in[1])
    /\ samples[1].sample # samples[2].sample

\* C8: with an empty reverse list every sample has no reverse path, and every
\* generated command holds exactly one read-input flag, for the forward path:
\* no reverse-input argument and no placeholder for the absent reverse path.
C8_SingleEndCommandHasOneInput ==
    (rev_in = <<>> /\ commands # <<>>) =>
        /\ \A k \in 1..Len(samples) : samples[k].r_fp = <<>>
        /\ \A k \in 1..Len(commands[1]) :
              LET cmd == commands[1][k]
              IN  /\ Cardinality(InputFlags(cmd)) = 1
                  /\ \A q \in 1..Len(cmd) : cmd[q] # "None"

\* C9: in every terminal state of the job the temporary directory made before
\* command generation has been removed.
C9_TempDirRemovedOnEveryExit ==
    pc = "done" => temp_dir = "removed"

\* C10: every fatal condition of the job (configuration error, pairing error, a
\* command exiting non-zero, no output file found) reaches the caller as the
\* returned triple (False, None, message) and not as an exception, and no
\* command is run after a command has failed.
C10_FatalSurfacedAsTriple ==
    /\ pc = "done" => result.kind = "return"
    /\ (pc = "done" /\ \E a \in 1..Len(calls) : Failed(a)) =>
          /\ ~result.success
          /\ result.ainfo = <<>>
          /\ result.msg # <<>>
    /\ \A a, b \in 1..Len(calls) : a < b => ~Failed(a)

\* _per_sample_ainfo has just returned its list of one ArtifactInfo
CollectorReturned == pc = "rmtree"

\* _per_sample_ainfo has raised its ValueError
NoOutputError ==
    /\ pc = "done"
    /\ result.kind = "raise"
    /\ result.exc = "ValueError"
    /\ result.tb = "_per_sample_ainfo"

\* the output file of read j of the sample of rank k, named after its sample
\* name / after its run prefix
SampleFile(k, j) == OutDir \o "/" \o samples[k].sample \o Suffixes[j]
PrefixFile(k, j) == OutDir \o "/" \o Str(samples[k].run_prefix) \o Suffixes[j]

\* the paths the command of rank k redirects its output to
WrittenBy(k) ==
    LET cmd == commands[1][k]
    IN  { cmd[q + 1] : q \in { n \in 1..(Len(cmd) - 1) : cmd[n] = ">" } }

\* files lists exactly the names of `wanted` that are on disk, each once
ListsExisting(files, wanted) ==
    /\ \A n \in 1..Len(files) : files[n] \in wanted \cap exists
    /\ \A x \in wanted \cap exists :
          Cardinality({ n \in 1..Len(files) : files[n] = x }) = 1

C12_ProgressNamesPosition ==
    commands # <<>> =>
        /\ Len(steps) = 2 + Len(calls)
        /\ \A a \in 1..Len(calls) :
              /\ calls[a].idx = (IF a > 1 /\ calls[a - 1].pass = calls[a].pass
                                 THEN calls[a - 1].idx + 1 ELSE 0)
              /\ steps[a + 2] = StepMsg(calls[a].pass, calls[a].idx + 1,
                                        Len(commands[1]))

\* _format_qc_filter_params has raised
FormatterRaised ==
    /\ pc = "done"
    /\ result.kind = "raise"
    /\ result.tb = "_format_qc_filter_params"

\* the words of the parameter string at the head of a command
ParamString(cmd) ==
    LET stop == CHOOSE n \in 1..Len(cmd) :
                    /\ cmd[n] = "--very-sensitive"
                    /\ \A m \in 1..(n - 1) : cmd[m] # "--very-sensitive"
    IN  SubSeq(cmd, 2, stop - 1)

\* C13 as stated: the formatter emits the flags in sorted key order, leaves out
\* a flag whose schema key is missing from the configuration instead of
\* failing, and fails on an unknown database name; so, the database directory
\* being set, it fails only on an unknown database name.
C13_MissingKeyOmitted ==
    LET db      == ParameterOf(<<"x">>)
        unknown == /\ db \in DOMAIN parameters
                   /\ parameters[db] \notin (DOMAIN DATABASE_PREFIX) \cup {"", "default"}
    IN  /\ (FormatterRaised /\ environ # <<>>) => unknown
        /\ (pc = "done" /\ commands # <<>>) =>
              /\ ~unknown
              /\ \A k \in 1..Len(commands[1]) :
                    LET ps == ParamString(commands[1][k])
                    IN  \A a, b \in 1..Len(ps) :
                           (ps[a] = "-x" /\ ps[b] = "-p") => b < a

\* C14 as stated: within one job each generated command is started at most
\* once; when every invocation exits zero there are as many invocations as
\* generated commands; and a job reported as successful has had no invocation
\* exit non-zero.
C14_EachCommandStartedOnce ==
    (pc = "done" /\ commands # <<>>) =>
        /\ \A k \in 0..(Len(commands[1]) - 1) :
              Cardinality({ a \in 1..Len(calls) : calls[a].idx = k }) <= 1
        /\ (\A a \in 1..Len(calls) : ~Failed(a)) => Len(calls) = Len(commands[1])
        /\ (result.kind = "return" /\ result.success) =>
              \A a \in 1..Len(calls) : ~Failed(a)

====
